---- MODULE Spec2Model ----
(***************************************************************************)
(* The session-scoped retrieval pipeline of src/index.ts: the three tool   *)
(* handlers search_docs, summarize_results and cite_sources over the       *)
(* process-wide searchContextStore, the Elasticsearch client               *)
(* (RetrievalOracle) and the OpenAI client (SynthesisOracle).              *)
(*                                                                         *)
(* A handler is an async function on a single-threaded event loop: it runs *)
(* without interruption from one await to the next.  search_docs and       *)
(* summarize_results each hold one await (the oracle round trip), so each  *)
(* is two steps, Call and Resume; cite_sources holds none and is one step. *)
(* JavaScript objects are records; a field holding undefined or null is a  *)
(* field the record does not have.                                         *)
(***************************************************************************)
EXTENDS Integers, Sequences, FiniteSets, TLC

\* Values Date.now() takes during a run.
MaxClock == 1
\* Oracle round trips (RetrievalOracle and SynthesisOracle together) per run.
MaxCalls == 2
\* Hits of the longest response in the runs of one session (SpecSession).
MaxHits == 6

VARIABLES
    searchContextStore, \* the Map<string, SearchResult[]> of index.ts:42
    tasks,              \* per oracle request, the invocation suspended on it
    now,                \* what Date.now() returns
    oracleCalls,        \* requests issued to the two oracle clients so far
    last,               \* what the step just taken handed back to the caller
    lastSearch,         \* history: per key, the search_docs that last set it
    minted              \* history: per minted id, the invocations given it

vars == <<searchContextStore, tasks, now, oracleCalls, last, lastSearch, minted>>

-----------------------------------------------------------------------------
(* JavaScript values *)

\* o.f is neither undefined nor null.
Has(o, f) == f \in DOMAIN o

\* !o.f for a string field: undefined and "" are the falsy strings.
Falsy(o, f) == ~Has(o, f) \/ o[f] = ""

\* `${o.f}` for a string field.
Str(o, f) == IF Has(o, f) THEN o[f] ELSE "undefined"

\* Number.prototype.toFixed(2) of an integral number.
ToFixed2(n) == ToString(n) \o ".00"

\* Array.prototype.join.
RECURSIVE Join(_, _)
Join(s, sep) ==
    IF Len(s) = 0 THEN ""
    ELSE IF Len(s) = 1 THEN s[1]
    ELSE s[1] \o sep \o Join(Tail(s), sep)

\* Array.prototype.slice(0, n).
Slice(s, n) == SubSeq(s, 1, IF Len(s) < n THEN Len(s) ELSE n)

\* String.prototype.substring(0, n).
Substring(str, n) == IF Len(str) <= n THEN str ELSE SubSeq(str, 1, n)

\* Map.prototype.set.
MapSet(m, k, v) == [x \in DOMAIN m \cup {k} |-> IF x = k THEN v ELSE m[x]]

\* A check that only asks whether the key is there.
NoResultsAbsentOnly(m, k) == k \notin DOMAIN m

\* !searchResults || searchResults.length === 0, for searchResults = m.get(k).
NoResults(m, k) == k \notin DOMAIN m \/ Len(m[k]) = 0

-----------------------------------------------------------------------------
(* What the callers and the oracles may hand to the handlers *)

\* Documents of the index.  The handler casts hit._source to Document without
\* validating it, so a document may lack a field.
docAlpha     == [id |-> 1, title |-> "Alpha", content |-> "alpha text",
                 tags |-> <<"x", "y">>]
docBeta      == [id |-> 2, title |-> "Beta", content |-> "beta text",
                 tags |-> <<"y">>]
docNoContent == [id |-> 3, title |-> "Gamma", tags |-> <<"z">>]
docNoTags    == [id |-> 4, title |-> "Delta", content |-> "delta text"]

hitAlpha     == [_source |-> docAlpha, _score |-> 9]
hitBeta      == [_source |-> docBeta]
hitNoContent == [_source |-> docNoContent, _score |-> 4]
hitNoTags    == [_source |-> docNoTags, _score |-> 3]
hitNoSource  == [_score |-> 1]

\* response.hits.hits
HitLists ==
    { <<>>, <<hitAlpha>>, <<hitBeta, hitAlpha>>, <<hitNoContent>>,
      <<hitAlpha, hitNoTags>>, <<hitNoSource>> }

\* response.hits.total: a number, a {value, relation} object, or absent.
Totals ==
    { [type |-> "undefined"], [type |-> "number", value |-> 7],
      [type |-> "object", value |-> 7], [type |-> "object"] }

\* How _client.search settles: rejected with an error, or a response.  Every
\* hit list comes with a numeric total, and one of them with every total.
RetrievalOutcomes ==
    { [error |-> [message |-> "connect ECONNREFUSED"]] }
    \cup { [response |-> [hits |-> [hits |-> h,
                                    total |-> [type |-> "number", value |-> 7]]]] :
             h \in HitLists }
    \cup { [response |-> [hits |-> [hits |-> <<hitBeta, hitAlpha>>, total |-> t]]] :
             t \in Totals }

\* How openai.chat.completions.create settles.
SynthesisOutcomes ==
    { [error |-> [message |-> "429 rate limit"]],
      [completion |-> [choices |-> <<[message |-> [role |-> "assistant",
                                                   content |-> "answer"]]>>]],
      [completion |-> [choices |-> <<[message |-> [role |-> "assistant"]]>>]],
      [completion |-> [choices |-> <<>>]],
      [completion |-> [id |-> "chatcmpl"]] }

\* `session_${Date.now()}` at clock value t.
MintId(t) == "session_" \o ToString(t)

\* A tool call: the tool's name and the arguments the caller gave.  An
\* argument the caller left out is a field the call does not have.
WithQuery    == {"query" :> q : q \in {"", "q"}}
WithSession  == {"session_id" :> id : id \in {"", "s1"}}
WithQuestion == {"question" :> q : q \in {"", "why"}}

\* The ids a caller may read with: its own, and the ids search_docs minted.
ReaderIds == {"s1"} \cup {MintId(t) : t \in 0..MaxClock}

SearchCalls ==
    {[name |-> "search_docs"]}
    \cup {[name |-> "search_docs"] @@ q : q \in WithQuery}
    \cup {[name |-> "search_docs"] @@ q @@ id : q \in WithQuery, id \in WithSession}

SummarizeCalls ==
    {[name |-> "summarize_results"]}
    \cup {[name |-> "summarize_results"] @@ q : q \in WithQuestion}
    \cup {[name |-> "summarize_results", session_id |-> "s1"]}
    \cup {[name |-> "summarize_results", session_id |-> "", question |-> "why"]}
    \cup {[name |-> "summarize_results", session_id |-> "s1"] @@ q :
            q \in WithQuestion}
    \cup {[name |-> "summarize_results", session_id |-> id, question |-> "why"] :
            id \in ReaderIds}

CiteCalls ==
    {[name |-> "cite_sources"]}
    \cup {[name |-> "cite_sources", session_id |-> id] : id \in {""} \cup ReaderIds}

-----------------------------------------------------------------------------
(* What a handler hands back *)

\* A tool result with structuredContent.
Success(text, structured) ==
    [isError |-> FALSE, text |-> text, structuredContent |-> structured]

\* A tool result with isError: true.
Failure(text) == [isError |-> TRUE, text |-> text]

\* An exception that leaves the handler: the promise it returned rejects.
Rejected(message) == [rejected |-> message]

\* The record of a finished invocation: the call, what came back, and what
\* the invocation did on the way (oracle requests, store reads).  search_docs
\* adds what the response told it, summarize_results how the completion
\* request settled (outcome), the request it sent and the context it had
\* read.
Finished(call, result, calls, gets) ==
    [call |-> call, result |-> result, oracleCalls |-> calls, storeGets |-> gets]

\* A handler reached its await: the call is suspended, nothing came back yet.
Suspended(call) == [call |-> call, suspended |-> TRUE]

\* A step of no handler: the clock moves.
Nothing == [call |-> [name |-> "none"]]

Idle == [state |-> "idle"]

TypeErrorReading(f) ==
    "Cannot read properties of undefined (reading '" \o f \o "')"

-----------------------------------------------------------------------------
(* search_docs, index.ts:75-177 *)

\* max_results = 5, the handler's default parameter.
DefaultMaxResults == 5

\* A check that lets the empty string through.
QueryUndefined(call) == ~Has(call, "query")

\* if (!query), index.ts:76.
QueryMissing(call) == Falsy(call, "query")

\* The request of index.ts:89-121.
SearchRequest(call) ==
    [index |-> "documents",
     size |-> IF Has(call, "max_results") THEN call.max_results
              ELSE DefaultMaxResults,
     query |-> call.query]

\* One element of response.hits.hits.map(...), index.ts:123-133.  The object
\* literal reads source.id first: a hit with no _source throws there.
SearchResult(hit) ==
    [f \in {"id", "title", "content", "tags"} \cap DOMAIN hit._source |->
        hit._source[f]]
    @@ [score |-> IF Has(hit, "_score") THEN hit._score ELSE 0]

MapThrows(hits) == \E i \in 1..Len(hits) : ~Has(hits[i], "_source")

Results(hits) == [i \in 1..Len(hits) |-> SearchResult(hits[i])]

\* const contextId = session_id || `session_${Date.now()}`, index.ts:136.
ContextId(call, t) ==
    IF Falsy(call, "session_id") THEN MintId(t) ELSE call.session_id

\* A store that appends to the context it holds.
StoreSetMerging(store, contextId, results) ==
    MapSet(store, contextId,
           (IF contextId \in DOMAIN store THEN store[contextId] ELSE <<>>)
           \o results)

\* A store that keeps the context it holds.
StoreSetOnce(store, contextId, results) ==
    IF contextId \in DOMAIN store THEN store
    ELSE MapSet(store, contextId, results)

\* A store of capacity one: it drops every other session.
StoreSetEvicting(store, contextId, results) ==
    [k \in {contextId} |-> results]

\* searchContextStore.set(contextId, results), index.ts:137.
StoreSet(store, contextId, results) == MapSet(store, contextId, results)

\* The characters of a content the narrative keeps, index.ts:144.
ExcerptLength == 200

\* One line of the narrative, index.ts:141-144.  r.content.substring throws
\* on a result with no content.
ContentLine(r, i) ==
    "[" \o ToString(i) \o "] " \o Str(r, "title") \o " (score: "
    \o ToFixed2(r.score) \o ")\n" \o Substring(r.content, ExcerptLength) \o "..."

NarrativeThrows(results) ==
    \E i \in 1..Len(results) : ~Has(results[i], "content")

ContentText(results) ==
    Join([i \in 1..Len(results) |-> ContentLine(results[i], i)], "\n\n")

\* totalHits, index.ts:148-151.
TotalHits(hits) ==
    IF hits.total.type = "number" THEN hits.total.value
    ELSE IF hits.total.type = "object" /\ Has(hits.total, "value")
         THEN hits.total.value
    ELSE 0

\* A structuredContent that leaves the effective id out.
SearchStructuredNoId(results, hits, contextId) ==
    [results |-> results, total |-> TotalHits(hits)]

\* structuredContent of a successful search, index.ts:160-164.
SearchStructured(results, hits, contextId) ==
    [results |-> results, total |-> TotalHits(hits), session_id |-> contextId]

SearchError(message) == Failure("Error searching documents: " \o message)

\* The handler from the point where `await _client.search` settles to its
\* return: what it hands back, and the store it leaves.  `put` says whether
\* line 137 ran, and under which key.
SearchSettled(call, outcome, store, t) ==
    IF Has(outcome, "error")
    THEN [result |-> SearchError(outcome.error.message), store |-> store,
          put |-> FALSE]
    ELSE LET hits == outcome.response.hits IN
    IF MapThrows(hits.hits)
    THEN [result |-> SearchError(TypeErrorReading("id")), store |-> store,
          put |-> FALSE]
    ELSE LET results   == Results(hits.hits)
             contextId == ContextId(call, t)
             stored    == StoreSet(store, contextId, results)
         IN
    IF NarrativeThrows(results)
    THEN [result |-> SearchError(TypeErrorReading("substring")),
          store |-> stored, put |-> TRUE, contextId |-> contextId,
          results |-> results]
    ELSE [result |->
            Success("Found " \o ToString(Len(results))
                        \o " relevant documents:\n\n" \o ContentText(results),
                    SearchStructured(results, hits, contextId)),
          store |-> stored, put |-> TRUE, contextId |-> contextId,
          results |-> results]

\* The k-th oracle request of a run belongs to tasks[k]: the invocation that
\* issued it, suspended until the request settles.
NextTask == oracleCalls + 1

CanSuspend == oracleCalls < MaxCalls

\* Another search_docs is suspended under the same caller-given session id.
Races(call) ==
    {i \in 1..MaxCalls :
        /\ tasks[i].state = "search"
        /\ ~Falsy(call, "session_id")
        /\ ~Falsy(tasks[i].call, "session_id")
        /\ tasks[i].call.session_id = call.session_id}

\* What a response told the handler: its hits, and the total-hit count it
\* reported, if it reported one (as a number, or as an object with a value).
Received(outcome) ==
    IF Has(outcome, "error") THEN [error |-> outcome.error.message]
    ELSE LET hits == outcome.response.hits IN
         [hits |-> hits.hits,
          reported |->
              IF \/ hits.total.type = "number"
                 \/ hits.total.type = "object" /\ Has(hits.total, "value")
              THEN <<hits.total.value>> ELSE <<>>]

\* A search_docs call up to its await: index.ts:75-89.
SearchDocsCall(call) ==
    IF QueryMissing(call)
    THEN /\ last' = Finished(call, Failure("Query parameter is required"), 0, 0)
         /\ UNCHANGED <<searchContextStore, tasks, now, oracleCalls,
                        lastSearch, minted>>
    ELSE /\ CanSuspend
         /\ tasks' =
              [i \in 1..MaxCalls |->
                 IF i = NextTask
                 THEN [state |-> "search", call |-> call,
                       request |-> SearchRequest(call),
                       raced |-> Races(call) # {}]
                 ELSE IF i \in Races(call)
                      THEN [tasks[i] EXCEPT !.raced = TRUE]
                      ELSE tasks[i]]
         /\ oracleCalls' = oracleCalls + 1
         /\ last' = Suspended(call)
         /\ UNCHANGED <<searchContextStore, now, lastSearch, minted>>

\* The rest of a search_docs call, once _client.search settled with
\* `outcome`: index.ts:89-176.
SearchDocsResume(i, outcome) ==
    /\ tasks[i].state = "search"
    /\ LET call == tasks[i].call
           done == SearchSettled(call, outcome, searchContextStore, now)
       IN /\ searchContextStore' = done.store
          /\ last' = Finished(call, done.result, 1, 0)
                     @@ [raced |-> tasks[i].raced]
                     @@ Received(outcome)
          /\ lastSearch' =
               IF done.put
               THEN MapSet(lastSearch, done.contextId,
                           [isError |-> done.result.isError,
                            results |-> done.results,
                            raced |-> tasks[i].raced,
                            replaced |->
                                /\ ~NoResults(searchContextStore, done.contextId)
                                /\ ~lastSearch[done.contextId].isError
                                /\ searchContextStore[done.contextId] # done.results,
                            everOk |->
                                \/ ~done.result.isError
                                \/ /\ done.contextId \in DOMAIN lastSearch
                                   /\ lastSearch[done.contextId].everOk])
               ELSE lastSearch
          /\ minted' =
               IF done.put /\ Falsy(call, "session_id")
               THEN MapSet(minted, done.contextId,
                           IF done.contextId \in DOMAIN minted
                           THEN minted[done.contextId] + 1 ELSE 1)
               ELSE minted
    /\ tasks' = [tasks EXCEPT ![i] = Idle]
    /\ UNCHANGED <<now, oracleCalls>>

-----------------------------------------------------------------------------
(* summarize_results, index.ts:198-276 *)

\* max_length = 500, the handler's default parameter.
DefaultMaxLength == 500
\* The cap on max_tokens, index.ts:245.
MaxTokensCap == 1000
\* At most this many documents go into the prompt, index.ts:227.
PromptDocs == 5

NoResultsText ==
    "No search results found for this session. Please call search_docs first."

\* if (!session_id || !question), index.ts:199.
SummarizeArgsMissing(call) == Falsy(call, "session_id") \/ Falsy(call, "question")

\* One `[Document i: title]\ncontent` block, index.ts:228.
DocumentBlock(r, i) ==
    "[Document " \o ToString(i) \o ": " \o Str(r, "title") \o "]\n"
    \o Str(r, "content")

\* A prompt that takes every document of the context.
DocumentBlocksUncapped(searchResults) ==
    [i \in 1..Len(searchResults) |-> DocumentBlock(searchResults[i], i)]

\* The blocks of searchResults.slice(0, 5).map(...), index.ts:226-228.
DocumentBlocks(searchResults) ==
    LET used == Slice(searchResults, PromptDocs)
    IN [i \in 1..Len(used) |-> DocumentBlock(used[i], i)]

\* Math.min(Math.ceil(max_length / 4), 1000), index.ts:245.
MaxTokens(call) ==
    LET max_length == IF Has(call, "max_length") THEN call.max_length
                      ELSE DefaultMaxLength
        ceil == (max_length + 3) \div 4
    IN IF ceil < MaxTokensCap THEN ceil ELSE MaxTokensCap

\* The request of index.ts:232-247.
SummarizeRequest(call, searchResults) ==
    [model |-> "gpt-4o-mini",
     user |-> "Question: " \o call.question \o "\n\nRelevant Documents:\n"
              \o Join(DocumentBlocks(searchResults), "\n\n---\n\n"),
     blocks |-> DocumentBlocks(searchResults),
     max_tokens |-> MaxTokens(call)]

\* completion.choices[0]?.message?.content, as text in a concatenation.
CompletionContent(completion) ==
    IF Len(completion.choices) = 0 THEN "undefined"
    ELSE IF ~Has(completion.choices[1], "message") THEN "undefined"
    ELSE IF ~Has(completion.choices[1].message, "content") THEN "null"
    ELSE completion.choices[1].message.content

\* index.ts:249-251.  `+` binds tighter than `||`: the fallback applies to
\* the concatenation, which is never the empty string.
Summary(completion) ==
    LET text == "AI generated summary: " \o CompletionContent(completion)
    IN IF text = "" THEN "No summary generated." ELSE text

\* A count of the documents that went into the prompt.
SourcesUsedCapped(searchResults) == Len(Slice(searchResults, PromptDocs))

\* sources_used, index.ts:262.
SourcesUsed(searchResults) == Len(searchResults)

SummarizeError(message) == Failure("Error generating summary: " \o message)

\* The handler from the point where the completion request settles to its
\* return: index.ts:232-275.
SummarizeSettled(outcome, searchResults) ==
    IF Has(outcome, "error") THEN SummarizeError(outcome.error.message)
    ELSE IF ~Has(outcome.completion, "choices")
    THEN SummarizeError(TypeErrorReading("0"))
    ELSE Success(Summary(outcome.completion),
                 [summary |-> Summary(outcome.completion),
                  sources_used |-> SourcesUsed(searchResults)])

\* A handler that reads the store again once the completion arrived.
ResultsReread(task, store) ==
    IF task.call.session_id \in DOMAIN store THEN store[task.call.session_id]
    ELSE <<>>

\* searchResults after the await: the constant bound at index.ts:211, which
\* the closure still holds at index.ts:262.
ResultsAfterAwait(task, store) == task.searchResults

\* A summarize_results call up to its await: index.ts:198-232.
SummarizeCall(call) ==
    IF SummarizeArgsMissing(call)
    THEN /\ last' = Finished(call,
                     Failure("Both session_id and question parameters are required"),
                     0, 0)
         /\ UNCHANGED <<searchContextStore, tasks, now, oracleCalls,
                        lastSearch, minted>>
    ELSE IF NoResults(searchContextStore, call.session_id)
    THEN /\ last' = Finished(call, Failure(NoResultsText), 0, 1)
         /\ UNCHANGED <<searchContextStore, tasks, now, oracleCalls,
                        lastSearch, minted>>
    ELSE /\ CanSuspend
         /\ LET searchResults == searchContextStore[call.session_id]
            IN tasks' = [tasks EXCEPT ![NextTask] =
                           [state |-> "summarize", call |-> call,
                            searchResults |-> searchResults,
                            request |-> SummarizeRequest(call, searchResults)]]
         /\ oracleCalls' = oracleCalls + 1
         /\ last' = Suspended(call)
         /\ UNCHANGED <<searchContextStore, now, lastSearch, minted>>

\* The rest of a summarize_results call, once the completion request settled
\* with `outcome`: index.ts:232-275.
SummarizeResume(i, outcome) ==
    /\ tasks[i].state = "summarize"
    /\ last' = Finished(tasks[i].call,
                        SummarizeSettled(outcome,
                            ResultsAfterAwait(tasks[i], searchContextStore)),
                        1, 1)
               @@ [request |-> tasks[i].request,
                   read |-> tasks[i].searchResults,
                   outcome |-> outcome]
    /\ tasks' = [tasks EXCEPT ![i] = Idle]
    /\ UNCHANGED <<searchContextStore, now, oracleCalls, lastSearch, minted>>

-----------------------------------------------------------------------------
(* cite_sources, index.ts:300-354 *)

\* if (!session_id), index.ts:301.
CiteArgsMissing(call) == Falsy(call, "session_id")

\* A projection that forgets the tags.
CitationNoTags(r) ==
    [f \in {"id", "title"} \cap DOMAIN r |-> r[f]]
    @@ [tags |-> <<>>, relevance_score |-> r.score]

\* One element of searchResults.map(...), index.ts:327-332.
Citation(r) ==
    [f \in {"id", "title", "tags"} \cap DOMAIN r |-> r[f]]
    @@ [relevance_score |-> r.score]

Citations(searchResults) ==
    [i \in 1..Len(searchResults) |-> Citation(searchResults[i])]

\* One line of the narrative, index.ts:336-339.  c.tags.join throws on a
\* citation with no tags; nothing in the handler catches it.
CitationLine(c, i) ==
    "[" \o ToString(i) \o "] ID: " \o ToString(c.id) \o ", Title: \""
    \o Str(c, "title") \o "\", Tags: " \o Join(c.tags, ", ") \o ", Score: "
    \o ToFixed2(c.relevance_score)

CitationTextThrows(citations) ==
    \E i \in 1..Len(citations) : ~Has(citations[i], "tags")

CitationText(citations) ==
    Join([i \in 1..Len(citations) |-> CitationLine(citations[i], i)], "\n")

\* What cite_sources hands back once the store holds results for the
\* session: index.ts:327-353.
Cited(searchResults) ==
    LET citations == Citations(searchResults) IN
    IF CitationTextThrows(citations) THEN Rejected(TypeErrorReading("join"))
    ELSE Success("Sources used (" \o ToString(Len(citations)) \o "):\n\n"
                     \o CitationText(citations),
                 [citations |-> citations])

\* A handler that drops the session once it was cited.
CiteSettledEvicting(call, store) ==
    IF CiteArgsMissing(call)
    THEN [result |-> Failure("session_id parameter is required"),
          store |-> store, gets |-> 0]
    ELSE IF NoResults(store, call.session_id)
    THEN [result |-> Failure(NoResultsText), store |-> store, gets |-> 1]
    ELSE [result |-> Cited(store[call.session_id]),
          store |-> [k \in DOMAIN store \ {call.session_id} |-> store[k]],
          gets |-> 1]

\* The whole handler, which awaits nothing: what it hands back, the store it
\* leaves and the reads it made.  index.ts:300-354.
CiteSettled(call, store) ==
    IF CiteArgsMissing(call)
    THEN [result |-> Failure("session_id parameter is required"),
          store |-> store, gets |-> 0]
    ELSE IF NoResults(store, call.session_id)
    THEN [result |-> Failure(NoResultsText), store |-> store, gets |-> 1]
    ELSE [result |-> Cited(store[call.session_id]), store |-> store,
          gets |-> 1]

\* A cite_sources call.
CiteSources(call) ==
    LET done == CiteSettled(call, searchContextStore)
    IN /\ last' = Finished(call, done.result, 0, done.gets)
       /\ searchContextStore' = done.store
       /\ UNCHANGED <<tasks, now, oracleCalls, lastSearch, minted>>

-----------------------------------------------------------------------------
\* Date.now() moves on.
Tick ==
    /\ now < MaxClock
    /\ now' = now + 1
    /\ last' = Nothing
    /\ UNCHANGED <<searchContextStore, tasks, oracleCalls, lastSearch, minted>>

Init ==
    /\ searchContextStore = [k \in {} |-> <<>>]
    /\ tasks = [i \in 1..MaxCalls |-> Idle]
    /\ now = 0
    /\ oracleCalls = 0
    /\ last = Nothing
    /\ lastSearch = [k \in {} |-> <<>>]
    /\ minted = [k \in {} |-> 0]

Next ==
    \/ \E call \in SearchCalls : SearchDocsCall(call)
    \/ \E i \in 1..MaxCalls, outcome \in RetrievalOutcomes :
           SearchDocsResume(i, outcome)
    \/ \E call \in SummarizeCalls : SummarizeCall(call)
    \/ \E i \in 1..MaxCalls, outcome \in SynthesisOutcomes :
           SummarizeResume(i, outcome)
    \/ \E call \in CiteCalls : CiteSources(call)
    \/ Tick

Spec == Init /\ [][Next]_vars

-----------------------------------------------------------------------------
(* One session with long contexts *)

\* The server seen later in its life: an earlier search_docs has stored a
\* context under "s1", and the callers keep to that session.  The responses
\* carry up to MaxHits hits, more than the prompt of summarize_results
\* takes.  oracleCalls counts the requests made from here on.

\* The document at rank i of a response, and its hit.
RankedDoc(i) ==
    [id |-> 100 + i, title |-> "Doc" \o ToString(i),
     content |-> "text " \o ToString(i), tags |-> <<"t">>]

RankedHit(i) == [_source |-> RankedDoc(i), _score |-> 20 - i]

\* A response of n hits.
RankedHits(n) == [i \in 1..n |-> RankedHit(i)]

SessionHitLists == {RankedHits(n) : n \in 0..MaxHits}

SessionSearchCalls ==
    {[name |-> "search_docs", query |-> "q", session_id |-> "s1",
      max_results |-> MaxHits]}

SessionRetrievalOutcomes ==
    { [error |-> [message |-> "connect ECONNREFUSED"]] }
    \cup { [response |-> [hits |-> [hits |-> h,
                                    total |-> [type |-> "object",
                                               value |-> Len(h)]]]] :
             h \in SessionHitLists }

SessionSummarizeCalls ==
    {[name |-> "summarize_results", session_id |-> "s1", question |-> "why"]}

SessionCiteCalls == {[name |-> "cite_sources", session_id |-> "s1"]}

\* The state a successful search_docs under "s1" left.
InitSession ==
    /\ \E h \in SessionHitLists :
           /\ searchContextStore = [k \in {"s1"} |-> Results(h)]
           /\ lastSearch = [k \in {"s1"} |->
                              [isError |-> FALSE, results |-> Results(h),
                               raced |-> FALSE, replaced |-> FALSE,
                               everOk |-> TRUE]]
    /\ tasks = [i \in 1..MaxCalls |-> Idle]
    /\ now = 0
    /\ oracleCalls = 0
    /\ last = Nothing
    /\ minted = [k \in {} |-> 0]

NextSession ==
    \/ \E call \in SessionSearchCalls : SearchDocsCall(call)
    \/ \E i \in 1..MaxCalls, outcome \in SessionRetrievalOutcomes :
           SearchDocsResume(i, outcome)
    \/ \E call \in SessionSummarizeCalls : SummarizeCall(call)
    \/ \E i \in 1..MaxCalls, outcome \in SynthesisOutcomes :
           SummarizeResume(i, outcome)
    \/ \E call \in SessionCiteCalls : CiteSources(call)

SpecSession == InitSession /\ [][NextSession]_vars

-----------------------------------------------------------------------------
(* Reading the step just taken *)

Tool(name) == last.call.name = name

\* The step finished an invocation.
Done == Has(last, "result")

\* ... which handed back a tool result (it did not throw).
Returned == Done /\ Has(last.result, "isError")

Ok == Returned /\ ~last.result.isError

FailedWith(text) == Returned /\ last.result = Failure(text)

\* The step suspended a call in its await; tasks[oracleCalls] holds it.
JustSuspended(name) == Has(last, "suspended") /\ Tool(name)

\* A field that may be absent, as a value that compares.
Field(o, f) == IF Has(o, f) THEN <<o[f]>> ELSE <<>>

\* citations is the projection of results: one citation per document, in
\* rank order, with the document's id, title, tags and score.
SameDocuments(citations, results) ==
    /\ Len(citations) = Len(results)
    /\ \A i \in 1..Len(results) :
          /\ Field(citations[i], "id") = Field(results[i], "id")
          /\ Field(citations[i], "title") = Field(results[i], "title")
          /\ Field(citations[i], "tags") = Field(results[i], "tags")
          /\ citations[i].relevance_score = results[i].score

AllTagged(results) == \A i \in 1..Len(results) : Has(results[i], "tags")

\* What a cite_sources call with this session id would hand back now.
CiteNow(id) ==
    CiteSettled([name |-> "cite_sources", session_id |-> id],
                searchContextStore).result

\* The result lists of single oracle responses.
OneResponse == {Results(h) : h \in {x \in HitLists : ~MapThrows(x)}}

\* The call misses a required argument.
InvalidCall(call) ==
    \/ call.name = "search_docs" /\ Falsy(call, "query")
    \/ call.name = "summarize_results"
         /\ (Falsy(call, "session_id") \/ Falsy(call, "question"))
    \/ call.name = "cite_sources" /\ Falsy(call, "session_id")

InvalidText(call) ==
    IF call.name = "search_docs" THEN "Query parameter is required"
    ELSE IF call.name = "summarize_results"
    THEN "Both session_id and question parameters are required"
    ELSE "session_id parameter is required"

\* No successful search_docs has ever stored under id.
NeverSearched(id) == id \notin DOMAIN lastSearch \/ ~lastSearch[id].everOk

-----------------------------------------------------------------------------
(* C1 *)

\* C1: last write wins per session id.  When the search_docs that last stored
\* under S returned a success, the store holds exactly its results under S
\* (nothing of an earlier context remains, nothing is merged); a
\* cite_sources on S returns the projection of exactly those results (or
\* SessionNotFound when they are empty), and a summarize_results on S that
\* reaches its await has read exactly those results and built its prompt
\* from them.
LastWriteWins ==
    \A S \in DOMAIN lastSearch :
        ~lastSearch[S].isError =>
            LET B == lastSearch[S].results IN
            /\ S \in DOMAIN searchContextStore
            /\ searchContextStore[S] = B
            /\ (Tool("cite_sources") /\ Returned /\ ~InvalidCall(last.call)
                    /\ last.call.session_id = S)
                 => IF Len(B) = 0 THEN FailedWith(NoResultsText)
                    ELSE /\ Ok
                         /\ SameDocuments(last.result.structuredContent.citations, B)
            /\ (JustSuspended("summarize_results") /\ last.call.session_id = S)
                 => /\ tasks[oracleCalls].searchResults = B
                    /\ tasks[oracleCalls].request.blocks = DocumentBlocks(B)

\* A cite_sources succeeded on s1 after a successful search_docs replaced the
\* different, non-empty context an earlier successful search_docs had stored
\* there, the two searches not overlapping.
LastWriteWinsWitness ==
    /\ Tool("cite_sources") /\ Ok
    /\ last.call.session_id = "s1"
    /\ ~lastSearch["s1"].isError
    /\ lastSearch["s1"].replaced
    /\ ~lastSearch["s1"].raced

-----------------------------------------------------------------------------
(* C2 *)

\* C2: a summarize_results (non-empty session_id and question) or a
\* cite_sources (non-empty session_id) on a session id that was never the
\* target of a successful search_docs fails with SessionNotFound and has
\* made no oracle call.
SequencingContract ==
    (/\ Done
     /\ Tool("summarize_results") \/ Tool("cite_sources")
     /\ ~InvalidCall(last.call)
     /\ NeverSearched(last.call.session_id))
    => FailedWith(NoResultsText) /\ last.oracleCalls = 0

-----------------------------------------------------------------------------
(* C3 *)

\* C3: a search_docs that returns an error response leaves the store as it
\* found it.
SearchFailureLeavesStore ==
    [][(/\ last'.call.name = "search_docs"
        /\ Has(last', "result")
        /\ last'.result.isError)
       => searchContextStore' = searchContextStore]_vars

-----------------------------------------------------------------------------
(* C4 *)

\* C4: racing writers and readers.  Every stored context is the complete
\* result list of the search_docs that set its key last, and of one oracle
\* response; a search_docs that overlapped another under the same session id
\* and returns a success leaves exactly its own results there; the context a
\* suspended summarize_results read and the citations a cite_sources returns
\* are each one complete context, never parts of two.
RacingWritersAtomic ==
    /\ \A S \in DOMAIN searchContextStore :
          /\ S \in DOMAIN lastSearch
          /\ searchContextStore[S] = lastSearch[S].results
          /\ searchContextStore[S] \in OneResponse
    /\ (Tool("search_docs") /\ Ok /\ last.raced)
         => /\ Has(last.result.structuredContent, "session_id")
            /\ last.result.structuredContent.session_id \in DOMAIN searchContextStore
            /\ searchContextStore[last.result.structuredContent.session_id]
                 = last.result.structuredContent.results
    /\ \A i \in 1..MaxCalls :
          tasks[i].state = "summarize" => tasks[i].searchResults \in OneResponse
    /\ (Tool("cite_sources") /\ Ok)
         => \E c \in OneResponse :
              SameDocuments(last.result.structuredContent.citations, c)

\* Two search_docs overlapped under s1, both finished, and the one that set
\* the key last replaced the other's different, non-empty context.
RacingWritersWitness ==
    /\ Tool("search_docs") /\ Ok /\ last.raced
    /\ last.call.session_id = "s1"
    /\ lastSearch["s1"].replaced
    /\ \A i \in 1..MaxCalls : tasks[i].state # "search"

-----------------------------------------------------------------------------
(* C5 *)

-----------------------------------------------------------------------------
(* C6 *)

\* C6: no two search_docs invocations that supply no session_id are given
\* the same effective session id.
MintedIdsUnique == \A id \in DOMAIN minted : minted[id] <= 1

-----------------------------------------------------------------------------
(* C7 *)

\* C7: after a successful search_docs without session_id, the session_id of
\* its structured response is a key of the store and a cite_sources with it
\* succeeds; a cite_sources with an id no search_docs has stored under fails
\* with SessionNotFound.
MintedIdUsable ==
    /\ (Tool("search_docs") /\ Ok /\ Falsy(last.call, "session_id"))
         => /\ Has(last.result.structuredContent, "session_id")
            /\ last.result.structuredContent.session_id
                 \in DOMAIN searchContextStore
            /\ LET cite == CiteNow(last.result.structuredContent.session_id)
               IN Has(cite, "isError") /\ ~cite.isError
    /\ (Tool("cite_sources") /\ Done /\ ~InvalidCall(last.call)
            /\ last.call.session_id \notin DOMAIN lastSearch)
         => FailedWith(NoResultsText)

\* C7, amended: after a successful search_docs without session_id, the
\* session_id of its structured response is a key of the store, holding the
\* results the search returned; the cite_sources with that id issued next
\* succeeds when the search returned at least one document (and throws when
\* one of them has no tags) and fails with SessionNotFound when it returned
\* none; a cite_sources with an id no search_docs has stored under fails
\* with SessionNotFound.
MintedIdUsableAmended ==
    /\ (Tool("search_docs") /\ Ok /\ Falsy(last.call, "session_id"))
         => /\ Has(last.result.structuredContent, "session_id")
            /\ LET id      == last.result.structuredContent.session_id
                   results == last.result.structuredContent.results
               IN /\ id \in DOMAIN searchContextStore
                  /\ searchContextStore[id] = results
                  /\ IF Len(results) = 0
                     THEN CiteNow(id) = Failure(NoResultsText)
                     ELSE IF AllTagged(results)
                     THEN Has(CiteNow(id), "isError") /\ ~CiteNow(id).isError
                     ELSE Has(CiteNow(id), "rejected")
    /\ (Tool("cite_sources") /\ Done /\ ~InvalidCall(last.call)
            /\ last.call.session_id \notin DOMAIN lastSearch)
         => FailedWith(NoResultsText)

\* A search_docs without session_id succeeded with at least one document.
MintedIdUsableWitness ==
    /\ Tool("search_docs") /\ Ok
    /\ Falsy(last.call, "session_id")
    /\ Len(last.result.structuredContent.results) > 0

-----------------------------------------------------------------------------
(* C8 *)

\* C8: no step of a summarize_results or of a cite_sources changes the
\* store, whatever the arguments and however the invocation ends.
ReadersLeaveStore ==
    [][last'.call.name \in {"summarize_results", "cite_sources"}
       => searchContextStore' = searchContextStore]_vars

\* A cite_sources returned citations.
ReadersLeaveStoreWitness == Tool("cite_sources") /\ Ok

-----------------------------------------------------------------------------
(* C9 *)

\* C9: a call that misses a required argument (empty or absent) ends in the
\* step that makes it, with the tool's error response, having issued no
\* oracle request, read nothing from the store and changed nothing.
ValidationFirst ==
    [][InvalidCall(last'.call)
       => /\ Has(last', "result")
          /\ last'.result = Failure(InvalidText(last'.call))
          /\ last'.oracleCalls = 0
          /\ last'.storeGets = 0
          /\ UNCHANGED <<searchContextStore, tasks, oracleCalls>>]_vars

\* A search_docs with the empty query was turned down while the store held
\* a context.
ValidationFirstWitness ==
    /\ Tool("search_docs") /\ Done
    /\ Has(last.call, "query") /\ last.call.query = ""
    /\ DOMAIN searchContextStore # {}

-----------------------------------------------------------------------------
(* C10 *)

\* C10: every invocation that ends hands back a tool result, a success or an
\* isError response; no exception leaves a handler.
EveryInvocationReturns == Done => Has(last.result, "isError")

-----------------------------------------------------------------------------
(* C11 *)

\* What a successful search_docs handed back as structuredContent.
Structured == last.result.structuredContent

\* The ScoredDocument of one hit: its document's fields, and its score.
Scored(hit, r) ==
    /\ \A f \in {"id", "title", "content", "tags"} :
           Field(r, f) = Field(hit._source, f)
    /\ r.score = IF Has(hit, "_score") THEN hit._score ELSE 0

\* C11: a successful search_docs whose response carried n hits hands back
\* exactly n results, the hits' documents in the response's order, each with
\* its hit's score or 0 where the hit has none, and a total of at least n.
SearchResultShape ==
    Tool("search_docs") /\ Ok
    => /\ Len(Structured.results) = Len(last.hits)
       /\ \A i \in 1..Len(last.hits) :
              Scored(last.hits[i], Structured.results[i])
       /\ Structured.total >= Len(Structured.results)

-----------------------------------------------------------------------------
(* C15 *)

\* C15: the total of a successful search_docs is the count the response
\* reported, and the number of results handed back where the response
\* reported none.
TotalFallback ==
    Tool("search_docs") /\ Ok
    => Structured.total = IF Len(last.reported) = 1 THEN last.reported[1]
                          ELSE Len(Structured.results)

-----------------------------------------------------------------------------
(* C18 *)

\* The completion carries a text: a first choice whose message has content.
CompletionText(completion) ==
    /\ Len(completion.choices) > 0
    /\ Has(completion.choices[1], "message")
    /\ Has(completion.choices[1].message, "content")

\* C18: a summarize_results whose completion request succeeded with a
\* response that carries no text (no choice, or a choice whose message has
\* no content) hands back the summary "No summary generated.".
MissingCompletionFallback ==
    Tool("summarize_results") /\ Ok /\ ~CompletionText(last.outcome.completion)
    => Structured.summary = "No summary generated."

-----------------------------------------------------------------------------
(* C14 *)

\* The store holds the empty context under id.
EmptyStored(id) ==
    id \in DOMAIN searchContextStore /\ Len(searchContextStore[id]) = 0

\* The step just taken was a reader's call on a session that holds the
\* empty context.
ReaderOnEmpty(name) ==
    /\ Tool(name) /\ ~InvalidCall(last.call)
    /\ EmptyStored(last.call.session_id)

\* C14: a successful search_docs with no hits stores the empty context under
\* its id, in place of whatever was there.  While a session holds the empty
\* context, a cite_sources on it answers "no search results" with no oracle
\* request, and so does a summarize_results: it ends in the step that makes
\* it and never reaches its completion request.
EmptyResultStored ==
    /\ Tool("search_docs") /\ Ok /\ Len(Structured.results) = 0
       => EmptyStored(Structured.session_id)
    /\ \A id \in DOMAIN searchContextStore :
           EmptyStored(id) => CiteNow(id) = Failure(NoResultsText)
    /\ ReaderOnEmpty("cite_sources") /\ Done
       => FailedWith(NoResultsText) /\ last.oracleCalls = 0
    /\ ~(ReaderOnEmpty("summarize_results") /\ Has(last, "suspended"))
    /\ ReaderOnEmpty("summarize_results") /\ Done /\ last.oracleCalls = 0
       => FailedWith(NoResultsText)

\* A search with no hits replaced a context that held documents, and a
\* cite_sources on that session was then turned down.
EmptyResultStoredWitness ==
    /\ ReaderOnEmpty("cite_sources") /\ FailedWith(NoResultsText)
    /\ lastSearch[last.call.session_id].replaced
    /\ ~lastSearch[last.call.session_id].isError

-----------------------------------------------------------------------------
(* C16 *)

\* C16: no step takes a key out of the store: the key set only grows, and
\* the only step that adds a key is a search_docs that comes back from its
\* await, which adds the one id it stored under.
SessionsNeverEvicted ==
    [][/\ DOMAIN searchContextStore \subseteq DOMAIN searchContextStore'
       /\ DOMAIN searchContextStore' # DOMAIN searchContextStore
          => /\ last'.call.name = "search_docs" /\ Has(last', "result")
             /\ DOMAIN searchContextStore' =
                  DOMAIN searchContextStore \cup {ContextId(last'.call, now)}]_vars

\* The store holds two sessions and a cite_sources on one of them succeeded.
SessionsNeverEvictedWitness ==
    /\ Cardinality(DOMAIN searchContextStore) = 2
    /\ Tool("cite_sources") /\ Ok

-----------------------------------------------------------------------------
(* C13 *)

\* The step ends a search_docs that stored a context under id: its response
\* arrived and was mapped, so that index.ts:137 ran.
SearchStored(id) ==
    /\ last'.call.name = "search_docs" /\ Has(last', "hits")
    /\ ~MapThrows(last'.hits)
    /\ ContextId(last'.call, now) = id

\* C13: cite_sources is idempotent.  A cite_sources on S hands back what the
\* store it finds determines, and no step other than a search_docs storing
\* under S changes what a cite_sources on S hands back: two calls with no
\* such search between them get the same citations in the same order, or
\* the same error.  (A step that leaves the store alone leaves CiteNow
\* alone, which reads nothing else.)
CiteIdempotent ==
    [][/\ last'.call.name = "cite_sources" /\ ~InvalidCall(last'.call)
          => last'.result = CiteNow(last'.call.session_id)
       /\ searchContextStore' # searchContextStore
          => \A id \in ReaderIds \cup DOMAIN searchContextStore' :
                 ~SearchStored(id) => CiteNow(id)' = CiteNow(id)]_vars

\* A cite_sources handed back two citations, and a second one now would hand
\* back the same.
CiteIdempotentWitness ==
    /\ Tool("cite_sources") /\ Ok
    /\ Len(Structured.citations) = 2
    /\ CiteNow(last.call.session_id) = last.result

-----------------------------------------------------------------------------
(* C12 *)

\* C12: a successful summarize_results reports as sources_used the number of
\* documents of the context it read, all of them, also where the context is
\* longer than the prompt's five documents.
SourcesUsedUncapped ==
    Tool("summarize_results") /\ Ok
    => Structured.sources_used = Len(last.read)

\* A summarize_results succeeded on a context of more than five documents.
SourcesUsedUncappedWitness ==
    /\ Tool("summarize_results") /\ Ok
    /\ Len(last.read) > PromptDocs
    /\ Structured.sources_used > PromptDocs

-----------------------------------------------------------------------------
(* C17 *)

Min(a, b) == IF a < b THEN a ELSE b

\* The prompt of request is built from context: min(k, 5) blocks for a
\* context of k documents, block i labelled i and carrying the title and
\* the content of the document at rank i, joined in that order.
PromptOf(request, context) ==
    /\ Len(request.blocks) = Min(Len(context), 5)
    /\ \A i \in 1..Len(request.blocks) :
           request.blocks[i] =
               "[Document " \o ToString(i) \o ": " \o context[i].title
               \o "]\n" \o context[i].content
    /\ request.user =
           "Question: why\n\nRelevant Documents:\n"
           \o Join(request.blocks, "\n\n---\n\n")

\* C17: the prompt a summarize_results sends holds exactly min(k, 5)
\* document blocks for a context of k documents: the first min(k, 5)
\* documents in rank order, labelled 1..min(k, 5).  So for the request of a
\* suspended call, and for the request of the call that just ended.
PromptCap ==
    /\ \A i \in 1..MaxCalls :
           tasks[i].state = "summarize"
           => PromptOf(tasks[i].request, tasks[i].searchResults)
    /\ Tool("summarize_results") /\ Has(last, "request")
       => PromptOf(last.request, last.read)

\* A summarize_results succeeded on a context of more than five documents,
\* with a prompt of five blocks.
PromptCapWitness ==
    /\ Tool("summarize_results") /\ Ok
    /\ Len(last.read) = MaxHits
    /\ Len(last.request.blocks) = PromptDocs

-----------------------------------------------------------------------------
(* C19 *)

\* The summarize_results suspended in task i ends in this step.
Resumes(i) ==
    /\ tasks'[i] = Idle
    /\ last'.call = tasks[i].call /\ Has(last', "result")

\* C19: summarize_results reads its session's context once, in the step
\* that makes the call, and works on that snapshot.  While it is suspended
\* its snapshot and its request stay as they are, whatever a search_docs
\* stores meanwhile; when it ends it has read the store once, the request it
\* sent was built from the snapshot, a success reports the snapshot's
\* length as sources_used, and it does not answer "no search results".
OneSnapshot ==
    [][\A i \in 1..MaxCalls :
         /\ tasks[i].state # "summarize" /\ tasks'[i].state = "summarize"
            => /\ tasks'[i].searchResults =
                    searchContextStore[tasks'[i].call.session_id]
               /\ tasks'[i].request.blocks =
                    DocumentBlocks(tasks'[i].searchResults)
         /\ tasks[i].state = "summarize"
            => \/ tasks'[i] = tasks[i]
               \/ /\ Resumes(i)
                  /\ last'.storeGets = 1
                  /\ last'.request = tasks[i].request
                  /\ last'.result # Failure(NoResultsText)
                  /\ Has(last'.result, "structuredContent")
                     => last'.result.structuredContent.sources_used =
                          Len(tasks[i].searchResults)]_vars

\* A summarize_results succeeded after a search_docs had replaced the
\* context it had read with one of another length.
OneSnapshotWitness ==
    /\ Tool("summarize_results") /\ Ok
    /\ searchContextStore[last.call.session_id] # last.read
    /\ Len(searchContextStore[last.call.session_id]) # Len(last.read)
    /\ Structured.sources_used = Len(last.read)

====
